---- MODULE Spec2Model ----
(***************************************************************************)
(* Model of src/src/prediction/predictor_model.py: the TimeStepClassifier  *)
(* facade (fit / predict / evaluate / save / load), its tensor reshaper    *)
(* _get_X_and_y, the probability decoders sigmoid / softmax and the window *)
(* aggregation inside predict.                                             *)
(*                                                                         *)
(* Python indices are kept: a tensor's windows are 0..N-1 and its steps    *)
(* 0..T-1.  Probabilities are exact rationals [n, d] (d > 0, lowest        *)
(* terms); np.exp is a small table of rational approximations.             *)
(***************************************************************************)
EXTENDS Integers, Sequences, FiniteSets, TLC

\* ---------------------------------------------------------------- bounds
MaxN == 2
MaxT == 2
MaxEncodeLen == 2

Series == {1, 2}           \* series ids (column 0)
StepIds == {0, 1, 2}       \* step ids (column 1)
PaddingValues == {0, 1}    \* values the constructor's padding_value takes
Widths == 3..5             \* D: two id columns, then features (and a label)
SampleWidths == 3..4       \* the widths the facade's life cycle is run on
SamplePadding == CHOOSE p \in PaddingValues : \A o \in PaddingValues : p <= o
FeatVals == {0, 1}         \* content of one window's flattened feature row
Seeds == {0, 1}            \* what a fit can learn (the training is a library)
ClassCounts == {2, 3}      \* len(data_schema.target_classes)
CValues == {1}             \* hyper-parameter C (the default 1.0)

\* ------------------------------------------------------------- rationals
RECURSIVE GCD(_, _)
GCD(a, b) == IF b = 0 THEN a ELSE GCD(b, a % b)

Abs(n) == IF n < 0 THEN -n ELSE n

QNorm(n, d) ==
    LET g == GCD(Abs(n), d) IN [n |-> n \div g, d |-> d \div g]

QInt(k) == [n |-> k, d |-> 1]
QAdd(a, b) == QNorm(a.n * b.d + b.n * a.d, a.d * b.d)
QSub(a, b) == QNorm(a.n * b.d - b.n * a.d, a.d * b.d)
QDiv(a, b) == QNorm(a.n * b.d, a.d * b.n)      \* b > 0

RECURSIVE QSum(_)
QSum(s) == IF s = << >> THEN QInt(0) ELSE QAdd(Head(s), QSum(Tail(s)))

RECURSIVE MaxOf(_)
MaxOf(s) ==
    IF Len(s) = 1 THEN s[1]
    ELSE LET m == MaxOf(Tail(s)) IN IF s[1] >= m THEN s[1] ELSE m

\* np.exp on the integer scores the model uses, as rational approximations
NpExp(x) ==
    CASE x = -2 -> [n |-> 1, d |-> 8]
      [] x = -1 -> [n |-> 3, d |-> 8]
      [] x = 0  -> [n |-> 1, d |-> 1]
      [] x = 1  -> [n |-> 8, d |-> 3]
      [] x = 2  -> [n |-> 8, d |-> 1]

\* ------------------------------------------------------------- decoders
\* softmax(x) on one row of scores
softmax(x) ==
    LET m == MaxOf(x)
        e_x == [c \in 1..Len(x) |-> NpExp(x[c] - m)]
        tot == QSum(e_x)
    IN [c \in 1..Len(x) |-> QDiv(e_x[c], tot)]

sigmoid(x) == QDiv(QInt(1), QAdd(QInt(1), NpExp(-x)))

\* the binary helper: column_stack((1 - sigmoid(x), sigmoid(x)))
BinaryHelper(x) ==
    LET sigmoid_val == sigmoid(x) IN << QSub(QInt(1), sigmoid_val), sigmoid_val >>

Zeros(K) == [c \in 1..K |-> QInt(0)]

\* --------------------------------------------------------------- tensors
\* A window is one series' run of consecutive steps: step start+t at position
\* t, and 0 (the pipeline's padding id) past the series' last step.  All rows
\* of a window carry the window's series id.  x is the content of the window's
\* feature columns, which the series and the first step determine.
LastStep == CHOOSE s \in StepIds : \A o \in StepIds : o <= s

WindowIds(series, start, T) ==
    [t \in 0..(T - 1) |->
        << series, IF start + t <= LastStep THEN start + t ELSE 0 >>]

WindowX(series, start) == (series + start) % 2

Windows(T) ==
    { [ids |-> WindowIds(s, st, T), x |-> WindowX(s, st)] :
        s \in Series, st \in StepIds }

TensorsOfShape(N, T) ==
    { [N |-> N, T |-> T, D |-> D,
       ids |-> [n \in 0..(N - 1) |-> w[n].ids],
       x |-> [n \in 0..(N - 1) |-> w[n].x]] :
        w \in [0..(N - 1) -> Windows(T)], D \in Widths }

Tensors == UNION { TensorsOfShape(N, T) : N \in 1..MaxN, T \in 1..MaxT }

\* ---------------------------------------------------------------- facade
\* MultiOutputClassifier(PassiveAggressiveClassifier(C=C)), not yet fitted
build_model(C) ==
    [C |-> C, fitted |-> FALSE, n_estimators |-> 0, n_features_in |-> 0,
     seed |-> 0]

\* TimeStepClassifier.__init__
NewFacade(data_schema, encode_len, padding_value, C) ==
    [data_schema |-> data_schema, encode_len |-> encode_len,
     padding_value |-> padding_value, C |-> C,
     model |-> build_model(C), is_trained |-> FALSE]

\* _get_X_and_y: X is one feature row per window (its content and its width),
\* y the labels (training; not modelled) or the identifier pairs (inference)
\* variant: training accepts any tensor that is long enough
TrainShapeErrorLax(T, encode_len) == T < encode_len
TrainShapeError(T, encode_len) == T # encode_len
InferShapeError(T, encode_len) == T < encode_len

get_X_and_y(self, data, is_train) ==
    IF is_train
    THEN IF TrainShapeError(data.T, self.encode_len)
         THEN [err |-> "ValueError", n_features |-> 0, X |-> << >>, y |-> << >>]
         ELSE [err |-> "", n_features |-> data.T * (data.D - 3),
               X |-> data.x, y |-> << >>]
    ELSE IF InferShapeError(data.T, self.encode_len)
         THEN [err |-> "ValueError", n_features |-> 0, X |-> << >>, y |-> << >>]
         ELSE [err |-> "", n_features |-> data.T * (data.D - 2),
               X |-> data.x, y |-> data.ids]

\* estimator i's decision_function on one feature row: a scalar for two
\* classes, one score per class otherwise.  The fitted weights are the
\* library's; seed stands for them.
decision_function(model, i, K, row) ==
    IF K = 2
    THEN ((model.seed + i + row) % 3) - 1
    ELSE [c \in 1..K |-> (((model.seed + i + row) * c) % 3) - 1]

helper(K, y_decision) ==
    IF K = 2 THEN BinaryHelper(y_decision) ELSE softmax(y_decision)

\* preds after the loop over self.model.estimators_: slab i is filled by
\* estimator i, the slabs past the last estimator stay np.zeros
FillPreds(model, K, X, T, N) ==
    [i \in 0..(T - 1) |->
        [n \in 0..(N - 1) |->
            IF i < model.n_estimators
            THEN helper(K, decision_function(model, i, K, X[n]))
            ELSE Zeros(K)]]

\* prob_dict[key] = prob_dict.get(key, []) + [step]
DictAppend(prob_dict, key, step) ==
    [k \in (DOMAIN prob_dict) \cup {key} |->
        IF k = key
        THEN (IF key \in DOMAIN prob_dict THEN prob_dict[key] ELSE << >>)
                 \o << step >>
        ELSE prob_dict[k]]

EmptyDict == [k \in {} |-> << >>]

\* the two nested loops of predict: index runs over preds' first axis,
\* step_index over its second; window_ids is indexed [index][step_index]
RECURSIVE Accumulate(_, _, _, _, _, _, _)
Accumulate(preds, P0, P1, window_ids, index, step_index, prob_dict) ==
    IF index >= P0 THEN [err |-> "", dict |-> prob_dict]
    ELSE IF index \notin DOMAIN window_ids
    THEN [err |-> "IndexError", dict |-> EmptyDict]
    ELSE IF step_index >= P1
    THEN Accumulate(preds, P0, P1, window_ids, index + 1, 0, prob_dict)
    ELSE IF step_index \notin DOMAIN window_ids[index]
    THEN [err |-> "IndexError", dict |-> EmptyDict]
    ELSE LET series_id == window_ids[index][0][1]
             step_id == window_ids[index][step_index][2]
             step == preds[index][step_index]
         IN Accumulate(preds, P0, P1, window_ids, index, step_index + 1,
                       DictAppend(prob_dict, << series_id, step_id >>, step))

\* np.mean(np.array(v), axis=0)
MeanOf(v) ==
    [c \in 1..Len(v[1]) |->
        QDiv(QSum([j \in 1..Len(v) |-> v[j][c]]), QInt(Len(v)))]

\* variant: the comprehension without its padding filter
MeanKeepPadding(prob_dict, padding_value) ==
    [k \in DOMAIN prob_dict |-> MeanOf(prob_dict[k])]

\* the dict comprehension: mean per key, keys with the padding step dropped
MeanAndDropPadding(prob_dict, padding_value) ==
    [k \in { kk \in DOMAIN prob_dict : kk[2] # padding_value } |->
        MeanOf(prob_dict[k])]

\* tuple comparison
KeyLess(a, b) == a[1] < b[1] \/ (a[1] = b[1] /\ a[2] < b[2])

\* sorted(prob_dict.keys())
RECURSIVE sorted(_)
sorted(keys) ==
    IF keys = {} THEN << >>
    ELSE LET m == CHOOSE k \in keys : \A o \in keys : o = k \/ KeyLess(k, o)
         IN << m >> \o sorted(keys \ {m})

NoPred ==
    [status |-> "none", err |-> "", raised_by |-> "", preds |-> << >>,
     acc |-> EmptyDict, keys |-> << >>, rows |-> << >>]

PredError(err, by) ==
    [status |-> "error", err |-> err, raised_by |-> by, preds |-> << >>,
     acc |-> EmptyDict, keys |-> << >>, rows |-> << >>]

\* TimeStepClassifier.predict
predict(self, data) ==
    LET r == get_X_and_y(self, data, FALSE)
        K == self.data_schema
    IN IF r.err # "" THEN PredError(r.err, "reshaper")
       ELSE IF ~self.model.fitted
       THEN PredError("AttributeError", "classifier")   \* no estimators_
       ELSE IF r.n_features # self.model.n_features_in
       THEN PredError("ValueError", "classifier")       \* decision_function
       ELSE
       LET preds == FillPreds(self.model, K, r.X, data.T, data.N)
           a == Accumulate(preds, data.T, data.N, r.y, 0, 0, EmptyDict)
       IN IF a.err # "" THEN PredError(a.err, "aggregation")
          ELSE
          LET prob_dict == MeanAndDropPadding(a.dict, self.padding_value)
              keys == sorted(DOMAIN prob_dict)
          IN IF keys = << >>
             THEN PredError("ValueError", "vstack")     \* nothing to stack
             ELSE [status |-> "ok", err |-> "", raised_by |-> "",
                   preds |-> preds, acc |-> a.dict, keys |-> keys,
                   rows |-> [j \in 1..Len(keys) |-> prob_dict[keys[j]]]]

\* sklearn's fit of the wrapper: one estimator per column of y, the width of
\* X remembered; seed is what the training learned
sk_fit(model, n_outputs, n_features, seed) ==
    [C |-> model.C, fitted |-> TRUE, n_estimators |-> n_outputs,
     n_features_in |-> n_features, seed |-> seed]

\* joblib.dump(self, ...): the object's attributes, pickled in order
Dump(self) ==
    << self.data_schema, self.encode_len, self.padding_value, self.C,
       self.model, self.is_trained >>

\* variant: the loaded object gets a freshly built classifier
RestoreRebuilt(file) ==
    [data_schema |-> file[1], encode_len |-> file[2],
     padding_value |-> file[3], C |-> file[4], model |-> build_model(file[4]),
     is_trained |-> file[6]]

\* joblib.load(...): the object rebuilt from the pickled attributes
Restore(file) ==
    [data_schema |-> file[1], encode_len |-> file[2],
     padding_value |-> file[3], C |-> file[4], model |-> file[5],
     is_trained |-> file[6]]

\* ----------------------------------------------------------------- state
VARIABLES
    facade,     \* the TimeStepClassifier the calls are made on
    disk,       \* the model directory: does it exist, and predictor.joblib
    loaded,     \* what the last load returned (<< >> before any load)
    fit_done,   \* history: some fit call has returned normally
    saved,      \* history: << the facade as the last successful save saw it >>
    data,       \* << >> or << the tensor of the last call >>
    call,       \* the last call and how it ended
    pred,       \* what the last predict computed
    shuffled    \* << >> or << predict on the last tensor, windows permuted >>

vars == << facade, disk, loaded, fit_done, saved, data, call, pred, shuffled >>

NoCall ==
    [op |-> "init", mode |-> "", status |-> "ok", err |-> "",
     raised_by |-> "", delegated |-> FALSE]

Call(op, mode, err, by, delegated) ==
    [op |-> op, mode |-> mode,
     status |-> IF err = "" THEN "ok" ELSE "error",
     err |-> err, raised_by |-> by, delegated |-> delegated]

\* one square tensor of every length and sample width: window n is series
\* 1 + n % 2 from step n % 3 on
SampleTensor(T, D) ==
    [N |-> T, T |-> T, D |-> D,
     ids |-> [n \in 0..(T - 1) |-> WindowIds(1 + (n % 2), n % 3, T)],
     x |-> [n \in 0..(T - 1) |-> WindowX(1 + (n % 2), n % 3)]]

SampleTensors == { SampleTensor(T, D) : T \in 1..MaxT, D \in SampleWidths }

LabelledSamples == { d \in SampleTensors : d.D >= 4 }

Init ==
    /\ facade \in { NewFacade(K, e, SamplePadding, C) :
                      K \in ClassCounts, e \in 1..MaxEncodeLen, C \in CValues }
    /\ disk = [dir |-> FALSE, file |-> << >>]
    /\ loaded = << >>
    /\ fit_done = FALSE
    /\ saved = << >>
    /\ data = << >>
    /\ call = NoCall
    /\ pred = NoPred
    /\ shuffled = << >>

\* -------------------------------------------------------------- actions
\* fit(train_data), the reshaper rejecting the tensor
FitShapeError(d) ==
    /\ get_X_and_y(facade, d, TRUE).err # ""
    /\ call' = Call("fit", "train", "ValueError", "reshaper", FALSE)
    /\ data' = << d >>
    /\ UNCHANGED << facade, disk, loaded, fit_done, saved, pred, shuffled >>

\* variant: the flag is set before self.model.fit is called
FitClassifierErrorFlagFirst(d) ==
    /\ get_X_and_y(facade, d, TRUE).err = ""
    /\ facade' = [facade EXCEPT !.is_trained = TRUE]
    /\ call' = Call("fit", "train", "ValueError", "classifier", TRUE)
    /\ data' = << d >>
    /\ UNCHANGED << disk, loaded, fit_done, saved, pred, shuffled >>

\* fit(train_data), self.model.fit raising (a step whose labels are all of
\* one class, say): estimators_ is assigned only when every fit returned
FitClassifierError(d) ==
    /\ get_X_and_y(facade, d, TRUE).err = ""
    /\ call' = Call("fit", "train", "ValueError", "classifier", TRUE)
    /\ data' = << d >>
    /\ UNCHANGED << facade, disk, loaded, fit_done, saved, pred, shuffled >>

\* fit(train_data) returning
FitOk(d, seed) ==
    LET r == get_X_and_y(facade, d, TRUE)
    IN /\ r.err = ""
       /\ facade' = [facade EXCEPT
                       !.model = sk_fit(facade.model, d.T, r.n_features, seed),
                       !.is_trained = TRUE]
       /\ fit_done' = TRUE
       /\ call' = Call("fit", "train", "", "", TRUE)
       /\ data' = << d >>
       /\ UNCHANGED << disk, loaded, saved, pred, shuffled >>

Fit(d) ==
    \/ FitShapeError(d)
    \/ FitClassifierError(d)
    \/ \E seed \in Seeds : FitOk(d, seed)

\* predict(data)
Predict(d) ==
    LET p == predict(facade, d)
    IN /\ pred' = p
       /\ call' = Call("predict", "infer", p.err, p.raised_by,
                       p.raised_by # "reshaper" /\ facade.model.fitted)
       /\ data' = << d >>
       /\ shuffled' = << >>
       /\ UNCHANGED << facade, disk, loaded, fit_done, saved >>

\* evaluate(test_data): the guard is "self.model is not None", and __init__
\* always builds a model, so self.model.predict is always reached; an
\* unfitted wrapper raises sklearn's NotFittedError from check_is_fitted
evaluate(self, d) ==
    LET r == get_X_and_y(self, d, TRUE)
        model_is_not_None == TRUE
    IN IF r.err # "" THEN Call("evaluate", "train", r.err, "reshaper", FALSE)
       ELSE IF model_is_not_None
       THEN IF ~self.model.fitted
            THEN Call("evaluate", "train", "NotFittedError", "classifier", TRUE)
            ELSE IF r.n_features # self.model.n_features_in
            THEN Call("evaluate", "train", "ValueError", "classifier", TRUE)
            ELSE Call("evaluate", "train", "", "", TRUE)
       ELSE Call("evaluate", "train", "NotFittedError", "facade", FALSE)

Evaluate(d) ==
    /\ call' = evaluate(facade, d)
    /\ data' = << d >>
    /\ UNCHANGED << facade, disk, loaded, fit_done, saved, pred, shuffled >>

\* variant: save without the check of the flag
saveUnguarded(self, dsk) ==
    IF ~dsk.dir
    THEN [call |-> Call("save", "", "FileNotFoundError", "joblib", FALSE),
          disk |-> dsk]
    ELSE [call |-> Call("save", "", "", "", FALSE),
          disk |-> [dsk EXCEPT !.file = << Dump(self) >>]]

\* TimeStepClassifier.save(model_dir_path) on the directory as dsk has it
save(self, dsk) ==
    IF ~self.is_trained
    THEN [call |-> Call("save", "", "NotFittedError", "facade", FALSE),
          disk |-> dsk]
    ELSE IF ~dsk.dir
    THEN [call |-> Call("save", "", "FileNotFoundError", "joblib", FALSE),
          disk |-> dsk]
    ELSE [call |-> Call("save", "", "", "", FALSE),
          disk |-> [dsk EXCEPT !.file = << Dump(self) >>]]

Save ==
    LET s == save(facade, disk)
    IN /\ call' = s.call
       /\ disk' = s.disk
       /\ saved' = IF s.call.status = "ok" THEN << facade >> ELSE saved
       /\ UNCHANGED << facade, loaded, fit_done, data, pred, shuffled >>

\* save_predictor_model(model, predictor_dir_path): makedirs, then save
SavePredictorModel ==
    LET s == save(facade, [disk EXCEPT !.dir = TRUE])
    IN /\ call' = [s.call EXCEPT !.op = "save_predictor_model"]
       /\ disk' = s.disk
       /\ saved' = IF s.call.status = "ok" THEN << facade >> ELSE saved
       /\ UNCHANGED << facade, loaded, fit_done, data, pred, shuffled >>

\* TimeStepClassifier.load / load_predictor_model
Load ==
    /\ IF disk.file = << >>
       THEN /\ call' = Call("load", "", "FileNotFoundError", "joblib", FALSE)
            /\ loaded' = loaded
       ELSE /\ call' = Call("load", "", "", "", FALSE)
            /\ loaded' = << Restore(disk.file[1]) >>
    /\ UNCHANGED << facade, disk, fit_done, saved, data, pred, shuffled >>

Next ==
    \/ \E d \in LabelledSamples : Fit(d)
    \/ \E d \in SampleTensors : Predict(d)
    \/ \E d \in LabelledSamples : Evaluate(d)
    \/ Save
    \/ SavePredictorModel
    \/ Load

Spec == Init /\ [][Next]_vars

\* ------------------------------------------------ predict on its own
\* The facades a fit leaves behind, and every inference tensor of the bounds.
TrainedFacades ==
    { [NewFacade(K, e, p, C) EXCEPT
          !.model = sk_fit(build_model(C), e, e * (D - 3), seed),
          !.is_trained = TRUE] :
        K \in ClassCounts, e \in 1..MaxEncodeLen, p \in PaddingValues,
        C \in CValues, D \in { w \in Widths : w >= 4 }, seed \in Seeds }

InitAgg ==
    /\ facade \in TrainedFacades
    /\ disk = [dir |-> FALSE, file |-> << >>]
    /\ loaded = << >>
    /\ fit_done = TRUE
    /\ saved = << >>
    /\ data \in { << d >> : d \in Tensors }
    /\ call = NoCall
    /\ pred = NoPred
    /\ shuffled = << >>

\* the windows of a tensor in another order: window n is the old perm[n]
Permute(d, perm) ==
    [d EXCEPT !.ids = [n \in 0..(d.N - 1) |-> d.ids[perm[n]]],
              !.x = [n \in 0..(d.N - 1) |-> d.x[perm[n]]]]

Perms(N) ==
    { f \in [0..(N - 1) -> 0..(N - 1)] :
        \A a, b \in 0..(N - 1) : a # b => f[a] # f[b] }

PredictData ==
    /\ pred.status = "none"
    /\ Predict(data[1])

\* predict once more on the same tensor with its windows shuffled
PredictShuffled(perm) ==
    /\ pred.status # "none"
    /\ shuffled = << >>
    /\ shuffled' = << [perm |-> perm,
                       pred |-> predict(facade, Permute(data[1], perm))] >>
    /\ UNCHANGED << facade, disk, loaded, fit_done, saved, data, call, pred >>

NextAgg ==
    \/ PredictData
    \/ \E perm \in Perms(data[1].N) : PredictShuffled(perm)

SpecAgg == InitAgg /\ [][NextAgg]_vars

\* ================================================================ claims
\* ----- C1: the trained flag is False after construction, and from then on
\* True exactly when some fit has returned normally; a fit that raises
\* leaves the facade (flag and classifier) as it was, a fit that returns
\* leaves the flag True, and no step takes the flag from True to False.
C1_TrainedIffFitCompleted ==
    /\ ~facade.is_trained
    /\ [](facade.is_trained <=> fit_done)
    /\ [][ /\ (facade.is_trained => facade'.is_trained)
           /\ (call'.op = "fit" /\ call'.status = "error" => facade' = facade)
           /\ (call'.op = "fit" /\ call'.status = "ok" => facade'.is_trained)
         ]_vars

\* a fit failed on a facade that an earlier fit had trained
C1_Witness ==
    /\ call.op = "fit"
    /\ call.status = "error"
    /\ facade.is_trained
    /\ fit_done

\* ----- C2: save and save_predictor_model on an untrained facade raise the
\* facade's NotFittedError and leave predictor.joblib as it was (absent);
\* the file changes only in a step taken by a trained facade.
C2_SaveNeedsTrained ==
    /\ [](~facade.is_trained => disk.file = << >>)
    /\ [][ /\ (call'.op \in {"save", "save_predictor_model"}
                 /\ ~facade.is_trained
                  => /\ call'.err = "NotFittedError"
                     /\ call'.raised_by = "facade"
                     /\ disk'.file = disk.file)
           /\ (disk'.file # disk.file => facade.is_trained) ]_vars

\* save_predictor_model made the directory, then save refused
C2_Witness ==
    /\ call.op = "save_predictor_model"
    /\ call.err = "NotFittedError"
    /\ ~facade.is_trained
    /\ disk.dir
    /\ disk.file = << >>

\* ----- C3 (as claimed): evaluate on an untrained facade, the tensor's T
\* equal to encode_len, raises the facade's own NotFittedError without the
\* underlying classifier having been called.
C3_EvaluateGatedByFlag ==
    (/\ call.op = "evaluate"
     /\ ~facade.is_trained
     /\ data[1].T = facade.encode_len)
        => /\ call.err = "NotFittedError"
           /\ call.raised_by = "facade"
           /\ ~call.delegated

\* ----- C4: the reshaper raises exactly when T # encode_len in training mode
\* (fit, evaluate) or T < encode_len in inference mode (predict); it raises
\* before the classifier is called, and the step leaves the facade unchanged.
C4_ShapeErrorExactly ==
    /\ [](/\ (call.mode = "train"
                => (call.raised_by = "reshaper"
                      <=> data[1].T # facade.encode_len))
          /\ (call.mode = "infer"
                => (call.raised_by = "reshaper"
                      <=> data[1].T < facade.encode_len))
          /\ (call.raised_by = "reshaper"
                => call.err = "ValueError" /\ ~call.delegated))
    /\ [][ call'.raised_by = "reshaper" => facade' = facade ]_vars

\* a trained facade refused a training tensor longer than encode_len
C4_Witness ==
    /\ call.op = "fit"
    /\ call.raised_by = "reshaper"
    /\ data[1].T > facade.encode_len
    /\ facade.is_trained

Positions == { << n, t >> : n \in 0..(data[1].N - 1), t \in 0..(data[1].T - 1) }
IdAt(n, t) == data[1].ids[n][t]

\* how often vector v occurs in the list s
Occurrences(s, v) == Cardinality({ j \in 1..Len(s) : s[j] = v })

\* predict got as far as the aggregation loops
Aggregated == pred.status = "ok" \/ pred.raised_by = "aggregation"

\* ----- C5 (as claimed): for every window n and step output t, whatever N
\* and T, preds[t][n] is accumulated under (ids[n][t][0], ids[n][t][1]), and
\* each emitted row is the mean of exactly the vectors under its key.
C5_AccumulatedUnderOwnKey ==
    Aggregated
        => /\ pred.status = "ok"
           /\ DOMAIN pred.acc = { IdAt(p[1], p[2]) : p \in Positions }
           /\ \A k \in DOMAIN pred.acc :
                \A q \in Positions :
                    Occurrences(pred.acc[k], pred.preds[q[2]][q[1]])
                        = Cardinality({ p \in Positions :
                              /\ IdAt(p[1], p[2]) = k
                              /\ pred.preds[p[2]][p[1]]
                                     = pred.preds[q[2]][q[1]] })
           /\ \A j \in 1..Len(pred.keys) :
                pred.rows[j] = MeanOf(pred.acc[pred.keys[j]])

\* ----- C6 (as claimed): on a trained facade, for a tensor of N windows and
\* T >= encode_len steps that the classifier accepts, predict returns a
\* matrix with one row per distinct identifier pair whose step id is not the
\* padding value (N # T, one window and all-padding tensors included).
C6_RowCount ==
    (/\ pred.status # "none"
     /\ facade.is_trained
     /\ data[1].T >= facade.encode_len
     /\ pred.raised_by # "classifier")
        => /\ pred.status = "ok"
           /\ Len(pred.rows)
                = Cardinality({ IdAt(p[1], p[2]) : p \in
                      { q \in Positions :
                          IdAt(q[1], q[2])[2] # facade.padding_value } })

\* ----- C7 (as claimed): every row predict returns is a probability
\* distribution, T > encode_len included: its entries sum to 1 and no
\* never-filled (all-zero) step output is among the vectors it averages.
C7_RowsAreDistributions ==
    pred.status = "ok"
        => /\ \A j \in 1..Len(pred.rows) : QSum(pred.rows[j]) = QInt(1)
           /\ \A k \in DOMAIN pred.acc :
                \A i \in 1..Len(pred.acc[k]) :
                    pred.acc[k][i] # Zeros(facade.data_schema)

\* ----- C8: the keys of the rows predict returns are strictly ascending in
\* (series_id, step_id) order, so none repeats, and none has the padding
\* value as its step id; row j is the mean kept for key j.
C8_RowsSortedNoPadding ==
    \A r \in { pred } \cup { shuffled[i].pred : i \in DOMAIN shuffled } :
        r.status = "ok"
            => /\ \A j \in 1..(Len(r.keys) - 1) :
                     KeyLess(r.keys[j], r.keys[j + 1])
               /\ \A j \in 1..Len(r.keys) :
                     /\ r.keys[j][2] # facade.padding_value
                     /\ r.keys[j] \in DOMAIN r.acc
                     /\ r.rows[j] = MeanOf(r.acc[r.keys[j]])
               /\ Len(r.rows) = Len(r.keys)

\* predict returned rows for both series from windows given in descending
\* series order, and dropped a padding step
C8_Witness ==
    /\ pred.status = "ok"
    /\ Len(pred.keys) >= 3
    /\ \E k \in DOMAIN pred.acc : k[2] = facade.padding_value
    /\ data[1].ids[0][0][1] > data[1].ids[1][0][1]
    /\ pred.keys[1][1] < pred.keys[Len(pred.keys)][1]

\* ----- C9 (as claimed): predict on the tensor with its windows permuted
\* returns the same keys with the same mean vectors as on the tensor itself.
C9_OrderIndependent ==
    (shuffled # << >> /\ pred.status = "ok")
        => /\ shuffled[1].pred.status = "ok"
           /\ shuffled[1].pred.keys = pred.keys
           /\ shuffled[1].pred.rows = pred.rows

====
